---- MODULE Spec2Model ----
(***************************************************************************)
(* Model of stock_screener.py: one screening run of the script.           *)
(*                                                                         *)
(* The script is a straight-line program: it analyses every ticker of the *)
(* sidebar list (fetch_and_analyze_data, one call per ticker), builds the *)
(* summary table, walks the results once more to draw a chart or a        *)
(* warning per ticker, and finally looks each ticker's fundamentals up.   *)
(*                                                                         *)
(* Numbers.  The script computes in float64.  Here a real number x is the *)
(* integer x * Scale (fixed point, three decimals); a quotient is rounded *)
(* towards minus infinity and a square root towards zero.  NaN and        *)
(* infinity are two reserved integers outside the range of every price.   *)
(* Bar i of the script (0-based) is position i + 1 of a sequence here.    *)
(***************************************************************************)
EXTENDS Integers, Sequences, FiniteSets, TLC

(***************************************************************************)
(* Number representation                                                   *)
(***************************************************************************)
Scale == 1000

NaN == -1000000000

Inf == 1000000000

Abs(x) == IF x < 0 THEN -x ELSE x

\* A lazily described sequence made into an explicit tuple.
Explicit(s) == s \o <<>>

\* a + b, a - b and a / b on float64 values with NaN propagation.
Sub(a, b) == IF a = NaN \/ b = NaN THEN NaN ELSE a - b

Add(a, b) == IF a = NaN \/ b = NaN THEN NaN ELSE a + b

\* Series / Series: 0/0 is NaN, x/0 is infinity for x > 0.
Div(a, b) ==
    IF a = NaN \/ b = NaN THEN NaN
    ELSE IF b = 0 THEN (IF a = 0 THEN NaN ELSE Inf)
    ELSE (a * Scale) \div b

RECURSIVE SqrtIter(_, _, _)
SqrtIter(x, lo, hi) ==
    IF lo >= hi THEN lo
    ELSE LET mid == (lo + hi + 1) \div 2
         IN  IF mid * mid <= x THEN SqrtIter(x, mid, hi) ELSE SqrtIter(x, lo, mid - 1)

\* Square root of a variance given in Scale^2 units, in Scale units (the
\* search starts below 40 price units, above every deviation of the data).
Sqrt(x) == SqrtIter(x, 0, 40000)

\* round(x, 2): x in Scale units to hundredths, ties to the even hundredth.
round2(x) ==
    IF x = NaN THEN NaN
    ELSE LET step == Scale \div 100
             q    == x \div step
             r    == x - q * step
         IN  IF 2 * r < step THEN q
             ELSE IF 2 * r > step THEN q + 1
             ELSE IF q % 2 = 0 THEN q ELSE q + 1

(***************************************************************************)
(* pandas Series operations used by the script                             *)
(***************************************************************************)
RECURSIVE SumRange(_, _, _)
SumRange(s, lo, hi) ==
    IF lo > hi THEN 0
    ELSE IF lo = hi THEN s[lo]
    ELSE LET mid == (lo + hi) \div 2
         IN  SumRange(s, lo, mid) + SumRange(s, mid + 1, hi)

HasNaN(s, lo, hi) == \E j \in lo..hi : s[j] = NaN

\* Series.diff(): the first bar has no predecessor.
diff(s) == Explicit([i \in 1..Len(s) |-> IF i = 1 THEN NaN ELSE s[i] - s[i - 1]])

\* Series.shift(): the value of the previous bar.
shift(s) == Explicit([i \in 1..Len(s) |-> IF i = 1 THEN NaN ELSE s[i - 1]])

\* Series.rolling(window).mean(): NaN until the window holds `window` values.
rolling_mean(s, window) ==
    Explicit([i \in 1..Len(s) |->
        IF i < window \/ HasNaN(s, i - window + 1, i) THEN NaN
        ELSE SumRange(s, i - window + 1, i) \div window])

RECURSIVE SumSqDev(_, _, _, _)
SumSqDev(s, m, lo, hi) ==
    IF lo > hi THEN 0 ELSE (s[hi] - m) * (s[hi] - m) + SumSqDev(s, m, lo, hi - 1)

\* Series.rolling(window).std(): sample standard deviation (ddof = 1).
rolling_std(s, window) ==
    Explicit([i \in 1..Len(s) |->
        IF i < window \/ HasNaN(s, i - window + 1, i) THEN NaN
        ELSE LET m == SumRange(s, i - window + 1, i) \div window
             IN  Sqrt(SumSqDev(s, m, i - window + 1, i) \div (window - 1))])

\* Series.fillna(value)
fillna(s, value) == Explicit([i \in 1..Len(s) |-> IF s[i] = NaN THEN value ELSE s[i]])

\* bfill left out: the column as the rolling window gives it.
bfillOmitted(s) == s

\* Series.fillna(method='bfill'): a NaN takes the next later value that is
\* not NaN; a NaN with no later value stays NaN.
bfill(s) ==
    Explicit([i \in 1..Len(s) |->
        LET later == {j \in i..Len(s) : s[j] # NaN}
        IN  IF later = {} THEN NaN
            ELSE s[CHOOSE j \in later : \A k \in later : j <= k]])

\* EwmStep with alpha = 2 / span and the weight of the past unchanged.
EwmStepAlphaOverSpan(prev, cur, span) == (2 * cur + (span - 1) * prev) \div span

\* e[t] = alpha * s[t] + (1 - alpha) * e[t-1] with alpha = 2 / (span + 1)
EwmStep(prev, cur, span) == (2 * cur + (span - 1) * prev) \div (span + 1)

\* The average at bar i, given the averages `known` of the first bars.
RECURSIVE EwmAt(_, _, _, _)
EwmAt(s, span, known, i) ==
    IF i <= Len(known) THEN known[i]
    ELSE IF i = 1 THEN s[1]
    ELSE EwmStep(EwmAt(s, span, known, i - 1), s[i], span)

\* The averages of the first n bars, built 25 bars at a time.
RECURSIVE EwmPrefix(_, _, _)
EwmPrefix(s, span, n) ==
    IF n <= 0 THEN <<>>
    ELSE LET known == EwmPrefix(s, span, n - 25)
         IN  Explicit([i \in 1..n |-> EwmAt(s, span, known, i)])

\* Series.ewm(span, adjust=False).mean(): seeded by the first value.
ewm_mean(s, span) == EwmPrefix(s, span, Len(s))

\* Series.mean() of a window: NaN values are skipped.
RECURSIVE SumNum(_, _)
SumNum(s, n) == IF n = 0 THEN 0 ELSE (IF s[n] = NaN THEN 0 ELSE s[n]) + SumNum(s, n - 1)

mean(s) ==
    LET cnt == Cardinality({i \in 1..Len(s) : s[i] # NaN})
    IN  IF cnt = 0 THEN NaN ELSE SumNum(s, Len(s)) \div cnt

\* data[-n:]: the last n values (all of them when there are fewer).
tail(s, n) == IF Len(s) <= n THEN s ELSE SubSeq(s, Len(s) - n + 1, Len(s))

(***************************************************************************)
(* Indicators                                                              *)
(***************************************************************************)
RsiPeriod == 14

AtrPeriod == 14

\* delta.where(delta > 0, 0): NaN > 0 is false, so a NaN becomes 0.
Gains(delta) == Explicit([i \in 1..Len(delta) |->
                    IF delta[i] # NaN /\ delta[i] > 0 THEN delta[i] ELSE 0])

\* -delta.where(delta < 0, 0)
Losses(delta) == Explicit([i \in 1..Len(delta) |->
                    IF delta[i] # NaN /\ delta[i] < 0 THEN -delta[i] ELSE 0])

\* RsiOf with a division by zero taken as undefined instead of infinite.
RsiOfUndefinedOnZeroLoss(rs) ==
    IF rs = NaN \/ rs = Inf THEN NaN
    ELSE 100 * Scale - (100 * Scale * Scale) \div (Scale + rs)

\* 100 - 100 / (1 + rs)
RsiOf(rs) ==
    IF rs = NaN THEN NaN
    ELSE IF rs = Inf THEN 100 * Scale
    ELSE 100 * Scale - (100 * Scale * Scale) \div (Scale + rs)

calculate_rsi(data, period) ==
    LET delta == diff(data.Close)
        gain  == rolling_mean(Gains(delta), period)
        loss  == rolling_mean(Losses(delta), period)
    IN  Explicit([i \in 1..Len(delta) |-> RsiOf(Div(gain[i], loss[i]))])

\* Max2 that lets a NaN win, as max(axis=1, skipna=False) does.
Max2KeepNaN(a, b) == IF a = NaN \/ b = NaN THEN NaN ELSE IF a >= b THEN a ELSE b

Max2(a, b) == IF a = NaN THEN b ELSE IF b = NaN THEN a ELSE IF a >= b THEN a ELSE b

AbsN(x) == IF x = NaN THEN NaN ELSE Abs(x)

\* max(axis=1) over the three candidates skips NaN.
TrueRange(data) ==
    LET prev == shift(data.Close)
    IN  Explicit([i \in 1..Len(prev) |->
            Max2(data.High[i] - data.Low[i],
                 Max2(AbsN(Sub(data.High[i], prev[i])), AbsN(Sub(data.Low[i], prev[i]))))])

calculate_atr(data, period) == rolling_mean(TrueRange(data), period)

calculate_macd(data, short_period, long_period, signal_period) ==
    LET short_ema == ewm_mean(data.Close, short_period)
        long_ema  == ewm_mean(data.Close, long_period)
        macd_line == Explicit([i \in 1..Len(short_ema) |-> short_ema[i] - long_ema[i]])
    IN  <<macd_line, ewm_mean(macd_line, signal_period)>>

(***************************************************************************)
(* The market data source (yfinance), as the script sees it                *)
(***************************************************************************)
MaxTickers == 2

Extra == 1

MinHistory == 200

BBWindow == 20

\* Closing prices of the wave-shaped series, in whole price units.
Example == <<100, 102, 101, 105, 99, 103, 107, 110, 108, 112, 115, 111, 109, 113, 117>>

\* The symbols the data source knows. Each stands for one kind of answer.
Symbols == {"FAIL", "EMPTY", "TINY", "SHORT", "FLAT", "RISE", "FALL", "WAVE", "NOVOL", "NOCLOSE"}

\* What the user may type between two commas: a symbol, or one with blanks.
RawTickers == Symbols \cup {" WAVE"}

\* str.strip()
strip(ticker) == IF ticker = " WAVE" THEN "WAVE" ELSE ticker

\* stock.history(period="1y") raises for this symbol.
HistoryRaises(sym) == sym = "FAIL"

Rows(sym) ==
    CASE sym = "EMPTY" -> 0
      [] sym = "TINY" -> BBWindow - 1
      [] sym = "SHORT" -> MinHistory - 1
      [] sym \in {"FLAT", "NOCLOSE"} -> MinHistory
      [] OTHER -> MinHistory + Extra

CloseAt(sym, i) ==
    CASE sym = "RISE" -> 50 * Scale + 250 * i
      [] sym = "FALL" -> 150 * Scale - 250 * i
      [] sym \in {"WAVE", "NOVOL", "SHORT", "TINY"} -> Example[((i - 1) % Len(Example)) + 1] * Scale
      [] OTHER -> 50 * Scale

SpreadUp(sym) == IF sym \in {"FLAT", "NOCLOSE", "EMPTY"} THEN 0 ELSE 1500

SpreadDown(sym) == IF sym \in {"FLAT", "NOCLOSE", "EMPTY"} THEN 0 ELSE 1000

\* The DataFrame stock.history returns: an index and the columns it has.
\* (The script never reads Open, which is left out.)
history(sym) ==
    LET n     == Rows(sym)
        index == [i \in 1..n |-> i]
        close == [i \in 1..n |-> CloseAt(sym, i)]
        high  == [i \in 1..n |-> CloseAt(sym, i) + SpreadUp(sym)]
        low   == [i \in 1..n |-> CloseAt(sym, i) - SpreadDown(sym)]
        vol   == [i \in 1..n |-> 1000]
        hl    == ("index" :> Explicit(index)) @@ ("High" :> Explicit(high))
                 @@ ("Low" :> Explicit(low))
    IN  IF sym = "NOCLOSE" THEN hl @@ ("Volume" :> Explicit(vol))
        ELSE IF sym = "NOVOL" THEN hl @@ ("Close" :> Explicit(close))
        ELSE hl @@ ("Close" :> Explicit(close)) @@ ("Volume" :> Explicit(vol))

(***************************************************************************)
(* fetch_and_analyze_data                                                  *)
(***************************************************************************)
\* A level is the tuple of its numbers: a range <<low, high>>, a stop loss
\* <<price>>; None is the empty tuple.
None == <<>>

ErrorResult(ticker, reason) == ("Ticker" :> ticker) @@ ("Error" :> reason)

\* TooShort with the Bollinger window as the minimum history.
TooShortForBands(data) == Len(data["index"]) < BBWindow

TooShort(data) == Len(data["index"]) < MinHistory

\* StopLoss one ATR below the buy price.
StopLossOneAtr(buy, atr) == round2(buy - atr)

StopLoss(buy, atr) == round2(buy - (2 * atr))

\* calculate_ranges with the levels gated by the RSI of the last bar: a buy
\* level only when oversold, a sell level only when overbought.
calculate_ranges_gated(data_period) ==
    IF Len(data_period["index"]) = 0 THEN <<None, None, None>>
    ELSE LET buy  == mean(data_period["Lower_BB"])
             sell == mean(data_period["Upper_BB"])
             atr  == mean(data_period["ATR"])
             rsi  == data_period["RSI"][Len(data_period["RSI"])]
         IN  << IF rsi < 30 * Scale THEN <<round2(buy - atr), round2(buy + atr)>> ELSE None,
                IF rsi > 70 * Scale THEN <<round2(sell - atr), round2(sell + atr)>> ELSE None,
                IF rsi < 30 * Scale THEN <<round2(buy - (2 * atr))>> ELSE None >>

calculate_ranges(data_period) ==
    IF Len(data_period["index"]) = 0 THEN <<None, None, None>>
    ELSE LET buy  == mean(data_period["Lower_BB"])
             sell == mean(data_period["Upper_BB"])
             atr  == mean(data_period["ATR"])
         IN  << <<round2(buy - atr), round2(buy + atr)>>,
                <<round2(sell - atr), round2(sell + atr)>>,
                <<StopLoss(buy, atr)>> >>

\* data[-n:] on the whole frame.
Window(data, n) == [c \in DOMAIN data |-> tail(data[c], n)]

Last(s) == s[Len(s)]

\* Lines 57-63: the indicator columns added to the frame.
WithIndicators(data) ==
    LET mid  == rolling_mean(data["Close"], BBWindow)
        sd   == rolling_std(data["Close"], BBWindow)
        up   == [i \in 1..Len(mid) |-> Add(mid[i], IF sd[i] = NaN THEN NaN ELSE 2 * sd[i])]
        lo   == [i \in 1..Len(mid) |-> Sub(mid[i], IF sd[i] = NaN THEN NaN ELSE 2 * sd[i])]
        macd == calculate_macd(data, 12, 26, 9)
    IN  data @@ ("RSI" :> fillna(calculate_rsi(data, RsiPeriod), 50 * Scale))
             @@ ("ATR" :> bfill(calculate_atr(data, AtrPeriod)))
             @@ ("50_MA" :> bfill(rolling_mean(data["Close"], 50)))
             @@ ("200_MA" :> bfill(rolling_mean(data["Close"], 200)))
             @@ ("Upper_BB" :> bfill(Explicit(up)))
             @@ ("Lower_BB" :> bfill(Explicit(lo)))
             @@ ("MACD_Line" :> macd[1])
             @@ ("Signal_Line" :> macd[2])

Analysed(ticker, data) ==
    LET daily   == calculate_ranges(Window(data, 1))
        weekly  == calculate_ranges(Window(data, 5))
        monthly == calculate_ranges(Window(data, 20))
    IN  ("Ticker" :> ticker)
        @@ ("Daily Buy Range" :> daily[1]) @@ ("Daily Sell Range" :> daily[2])
        @@ ("Daily Stop Loss" :> daily[3])
        @@ ("Weekly Buy Range" :> weekly[1]) @@ ("Weekly Sell Range" :> weekly[2])
        @@ ("Weekly Stop Loss" :> weekly[3])
        @@ ("Monthly Buy Range" :> monthly[1]) @@ ("Monthly Sell Range" :> monthly[2])
        @@ ("Monthly Stop Loss" :> monthly[3])
        @@ ("RSI" :> round2(Last(data["RSI"])))
        @@ ("MACD Line" :> round2(Last(data["MACD_Line"])))
        @@ ("Signal Line" :> round2(Last(data["Signal_Line"])))
        @@ ("ATR" :> round2(Last(data["ATR"])))
        @@ ("Data" :> data)

\* The first column a KeyError names, in the order lines 57-58 read them.
MissingColumn(data) ==
    IF "Close" \notin DOMAIN data THEN "'Close'"
    ELSE IF "High" \notin DOMAIN data THEN "'High'"
    ELSE IF "Low" \notin DOMAIN data THEN "'Low'"
    ELSE ""

fetch_and_analyze_data(ticker) ==
    IF HistoryRaises(strip(ticker)) THEN ErrorResult(ticker, "DataUnavailable")
    ELSE LET data == history(strip(ticker))
         IN  IF TooShort(data) THEN ErrorResult(ticker, "Not enough data for 200-day MA")
             ELSE IF MissingColumn(data) # "" THEN ErrorResult(ticker, MissingColumn(data))
             ELSE Analysed(ticker, WithIndicators(data))

\* Line 103 calls fetch_and_analyze_data once per ticker. The data source
\* answers the same way each time it is asked within one run, so the call is
\* tabulated here once for every ticker the user may type.
Analysis == [t \in RawTickers |-> fetch_and_analyze_data(t)]

(***************************************************************************)
(* The screening run                                                       *)
(***************************************************************************)
VARIABLES
    tickers,    \* the sidebar text split at the commas (line 18-21)
    pc,         \* the loop the script is in
    pos,        \* the position of that loop in its list
    results,    \* line 103
    summary,    \* line 106; the table is shown when it is not empty
    warnings,   \* st.warning calls of the chart loop: <<ticker, reason>>
    charts,     \* st.plotly_chart calls of the chart loop
    sidebar,    \* tickers whose fundamentals the sidebar shows
    error       \* the exception that ended the script, "" while there is none

vars == <<tickers, pc, pos, results, summary, warnings, charts, sidebar, error>>

IsError(res) == "Error" \in DOMAIN res

\* SummaryOf without the filter on "Error".
SummaryOfEveryResult(all) ==
    [n \in 1..Len(all) |-> [k \in DOMAIN all[n] \ {"Data"} |-> all[n][k]]]

\* Line 106-108: the successful results, without their frames.
SummaryOf(all) ==
    LET ok == SelectSeq(all, LAMBDA res : ~IsError(res))
    IN  [n \in 1..Len(ok) |-> [k \in DOMAIN ok[n] \ {"Data"} |-> ok[n][k]]]

\* Lines 126-193: the figure drawn for one successful result.
ChartOf(res) ==
    [title  |-> res["Ticker"],
     traces |-> <<"Close", "50_MA">>
                \o (IF \E n \in 1..Len(res["Data"]["200_MA"]) :
                          res["Data"]["200_MA"][n] # NaN
                    THEN <<"200_MA">> ELSE <<>>)
                \o <<"Upper_BB", "Lower_BB", "Volume">>,
     shapes |-> (IF res["Daily Buy Range"] # None
                 THEN <<[fillcolor |-> "green", y |-> res["Daily Buy Range"]]>>
                 ELSE <<>>)
                \o (IF res["Daily Sell Range"] # None
                    THEN <<[fillcolor |-> "red", y |-> res["Daily Sell Range"]]>>
                    ELSE <<>>)]

\* str.split(",") returns at least one piece.
TickerLists == UNION {[1..n -> RawTickers] : n \in 1..MaxTickers}

Init ==
    /\ tickers \in TickerLists
    /\ pc = "analyze"
    /\ pos = 1
    /\ results = <<>>
    /\ summary = <<>>
    /\ warnings = <<>>
    /\ charts = <<>>
    /\ sidebar = <<>>
    /\ error = ""

\* Line 103, one ticker of the list comprehension.
Analyze ==
    /\ pc = "analyze"
    /\ pos <= Len(tickers)
    /\ results' = Append(results, Analysis[tickers[pos]])
    /\ pos' = pos + 1
    /\ UNCHANGED <<tickers, pc, summary, warnings, charts, sidebar, error>>

\* Lines 106-114, once every ticker is analysed.
Summarize ==
    /\ pc = "analyze"
    /\ pos > Len(tickers)
    /\ summary' = SummaryOf(results)
    /\ pc' = "charts"
    /\ pos' = 1
    /\ UNCHANGED <<tickers, results, warnings, charts, sidebar, error>>

\* Lines 119-121: a failed ticker is reported and skipped.
ChartWarning ==
    /\ pc = "charts"
    /\ pos <= Len(results)
    /\ IsError(results[pos])
    /\ warnings' = Append(warnings, <<results[pos]["Ticker"], results[pos]["Error"]>>)
    /\ pos' = pos + 1
    /\ UNCHANGED <<tickers, pc, results, summary, charts, sidebar, error>>

\* Lines 123-193: the chart of a successful ticker.
ChartDraw ==
    /\ pc = "charts"
    /\ pos <= Len(results)
    /\ ~IsError(results[pos])
    /\ "Volume" \in DOMAIN results[pos]["Data"]
    /\ charts' = Append(charts, ChartOf(results[pos]))
    /\ pos' = pos + 1
    /\ UNCHANGED <<tickers, pc, results, summary, warnings, sidebar, error>>

\* Line 161: data["Volume"] of a frame without that column raises KeyError
\* outside every try block, which ends the script.
ChartKeyError ==
    /\ pc = "charts"
    /\ pos <= Len(results)
    /\ ~IsError(results[pos])
    /\ "Volume" \notin DOMAIN results[pos]["Data"]
    /\ error' = "KeyError: 'Volume'"
    /\ pc' = "crashed"
    /\ UNCHANGED <<tickers, pos, results, summary, warnings, charts, sidebar>>

\* Line 196, after the last result.
ChartsDone ==
    /\ pc = "charts"
    /\ pos > Len(results)
    /\ pc' = "fundamentals"
    /\ pos' = 1
    /\ UNCHANGED <<tickers, results, summary, warnings, charts, sidebar, error>>

\* Lines 198-204: stock.info answers.
FundamentalsShown ==
    /\ pc = "fundamentals"
    /\ pos <= Len(tickers)
    /\ sidebar' = Append(sidebar, tickers[pos])
    /\ pos' = pos + 1
    /\ UNCHANGED <<tickers, pc, results, summary, warnings, charts, error>>

\* Line 199: stock.info raises (the request fails); the loop has no try
\* block, which ends the script.
FundamentalsRaise ==
    /\ pc = "fundamentals"
    /\ pos <= Len(tickers)
    /\ error' = "stock.info raised"
    /\ pc' = "crashed"
    /\ UNCHANGED <<tickers, pos, results, summary, warnings, charts, sidebar>>

\* The end of the script.
Finish ==
    /\ pc = "fundamentals"
    /\ pos > Len(tickers)
    /\ pc' = "done"
    /\ UNCHANGED <<tickers, pos, results, summary, warnings, charts, sidebar, error>>

Next ==
    \/ Analyze
    \/ Summarize
    \/ ChartWarning
    \/ ChartDraw
    \/ ChartKeyError
    \/ ChartsDone
    \/ FundamentalsShown
    \/ FundamentalsRaise
    \/ Finish

Spec == Init /\ [][Next]_vars

(***************************************************************************)
(* Vocabulary of the properties                                            *)
(***************************************************************************)
\* The tickers the data source cannot serve: the fetch raises, the series is
\* shorter than the 200-day average needs, or a price column is missing.
Failing ==
    {t \in RawTickers :
        \/ HistoryRaises(strip(t))
        \/ Rows(strip(t)) < MinHistory
        \/ ~({"Close", "High", "Low"} \subseteq DOMAIN history(strip(t)))}

Successes == {k \in 1..Len(results) : ~IsError(results[k])}

\* The three timeframe windows and the result keys of their levels.
Timeframes ==
    { [bars |-> 1,  buy |-> "Daily Buy Range",   sell |-> "Daily Sell Range",
       stop |-> "Daily Stop Loss"],
      [bars |-> 5,  buy |-> "Weekly Buy Range",  sell |-> "Weekly Sell Range",
       stop |-> "Weekly Stop Loss"],
      [bars |-> 20, buy |-> "Monthly Buy Range", sell |-> "Monthly Sell Range",
       stop |-> "Monthly Stop Loss"] }

\* The mean of the last n values of a column without NaN.
MeanOfLast(col, n) == SumRange(col, Len(col) - n + 1, Len(col)) \div n

\* The rolling indicator columns and their periods.
RollingColumns ==
    { <<"ATR", AtrPeriod>>, <<"50_MA", 50>>, <<"200_MA", 200>>,
      <<"Upper_BB", BBWindow>>, <<"Lower_BB", BBWindow>> }

\* The rolling series of each analysable ticker before any filling.
RollingOf ==
    [t \in RawTickers \ Failing |->
        LET data == history(strip(t))
            mid  == rolling_mean(data["Close"], BBWindow)
            sd   == rolling_std(data["Close"], BBWindow)
        IN  ("ATR" :> calculate_atr(data, AtrPeriod))
            @@ ("50_MA" :> rolling_mean(data["Close"], 50))
            @@ ("200_MA" :> rolling_mean(data["Close"], 200))
            @@ ("Upper_BB" :> [n \in 1..Len(mid) |->
                                 IF mid[n] = NaN THEN NaN ELSE mid[n] + 2 * sd[n]])
            @@ ("Lower_BB" :> [n \in 1..Len(mid) |->
                                 IF mid[n] = NaN THEN NaN ELSE mid[n] - 2 * sd[n]])]

\* Per bar of each analysable ticker: the sum of the rises and the sum of the
\* falls of the close over the differences of the 14-bar window ending there.
GainLoss ==
    [t \in RawTickers \ Failing |->
        LET close == history(strip(t))["Close"]
            first(n) == IF n - RsiPeriod + 1 < 2 THEN 2 ELSE n - RsiPeriod + 1
            up(j)   == IF close[j] > close[j - 1] THEN close[j] - close[j - 1] ELSE 0
            down(j) == IF close[j] < close[j - 1] THEN close[j - 1] - close[j] ELSE 0
            ups     == [j \in 1..Len(close) |-> IF j = 1 THEN 0 ELSE up(j)]
            downs   == [j \in 1..Len(close) |-> IF j = 1 THEN 0 ELSE down(j)]
        IN  [n \in 1..Len(close) |->
                <<SumRange(ups, first(n), n), SumRange(downs, first(n), n)>>]]

(***************************************************************************)
(* C1                                                                      *)
(***************************************************************************)
\* C1: no failure of a per-ticker step (the analysis, the chart, the
\* fundamentals lookup) escapes to end the run: the script never stops on an
\* uncaught exception.
C1_NoFailureEscapes == error = "" /\ pc # "crashed"

(***************************************************************************)
(* C2                                                                      *)
(***************************************************************************)
ExpectedSummaryTickers == SelectSeq(tickers, LAMBDA t : t \notin Failing)

\* The failing tickers among the first n, in input order, with their reasons.
ExpectedWarnings(n) ==
    LET failed == SelectSeq([k \in 1..n |-> k], LAMBDA k : tickers[k] \in Failing)
    IN  [m \in 1..Len(failed) |->
            <<tickers[failed[m]], results[failed[m]]["Error"]>>]

\* The number of results the chart loop has dealt with.
Charted ==
    IF pc = "analyze" THEN 0
    ELSE IF pc = "charts" \/ error = "KeyError: 'Volume'" THEN pos - 1
    ELSE Len(results)

C3_InsufficientData ==
    \A k \in 1..Len(results) :
        (~HistoryRaises(strip(tickers[k])) /\ Rows(strip(tickers[k])) < MinHistory) =>
            /\ DOMAIN results[k] = {"Ticker", "Error"}
            /\ results[k]["Ticker"] = tickers[k]
            /\ results[k]["Error"] = "Not enough data for 200-day MA"

C3_Witness ==
    \E k \in 1..Len(results) :
        /\ ~HistoryRaises(strip(tickers[k]))
        /\ Rows(strip(tickers[k])) = MinHistory - 1
        /\ IsError(results[k])

(***************************************************************************)
(* C4                                                                      *)
(***************************************************************************)
\* The level a "no signal" policy leaves: none, or the last close.
NoSignalLevels(res) ==
    LET close == round2(Last(res["Data"]["Close"]))
    IN  {None, <<close>>, <<close, close>>}

\* C4 as claimed: a buy level is produced only when the RSI is below 30 and a
\* sell level only when it is above 70; otherwise the level is unavailable or
\* is the last close.
C4_GatedByOscillator ==
    \A k \in Successes : \A tf \in Timeframes :
        /\ results[k]["RSI"] >= 30 * 100 =>
               results[k][tf.buy] \in NoSignalLevels(results[k])
        /\ results[k]["RSI"] <= 70 * 100 =>
               results[k][tf.sell] \in NoSignalLevels(results[k])

\* C4 as amended: whatever the RSI, every timeframe of a successful ticker
\* has the buy range mean(Lower_BB) -/+ mean(ATR) and the sell range
\* mean(Upper_BB) -/+ mean(ATR) over its window, rounded to two decimals.
C4_RangesUngated ==
    \A k \in Successes : \A tf \in Timeframes :
        LET data == results[k]["Data"]
            buy  == MeanOfLast(data["Lower_BB"], tf.bars)
            sell == MeanOfLast(data["Upper_BB"], tf.bars)
            atr  == MeanOfLast(data["ATR"], tf.bars)
        IN  /\ results[k][tf.buy] = <<round2(buy - atr), round2(buy + atr)>>
            /\ results[k][tf.sell] = <<round2(sell - atr), round2(sell + atr)>>

\* A successful ticker that is neither oversold nor overbought and still has
\* a buy and a sell range that are not the last close.
C4_Witness ==
    \E k \in Successes : \E tf \in Timeframes :
        /\ results[k]["RSI"] >= 30 * 100
        /\ results[k]["RSI"] <= 70 * 100
        /\ results[k][tf.buy] \notin NoSignalLevels(results[k])
        /\ results[k][tf.sell] \notin NoSignalLevels(results[k])

(***************************************************************************)
(* C5                                                                      *)
(***************************************************************************)
\* C5 as claimed: the stop loss is buyPrice - k * ATR with k between 1.0 and
\* 1.5, or buyPrice * (1 - 0.03), buyPrice and ATR being the window means of
\* Lower_BB and ATR; it is unavailable whenever the buy level is.
C5_StopLossDefaultK ==
    \A k \in Successes : \A tf \in Timeframes :
        LET data == results[k]["Data"]
            buy  == MeanOfLast(data["Lower_BB"], tf.bars)
            atr  == MeanOfLast(data["ATR"], tf.bars)
            stop == results[k][tf.stop]
        IN  /\ results[k][tf.buy] = None => stop = None
            /\ results[k][tf.buy] # None =>
                /\ Len(stop) = 1
                /\ \/ /\ round2(buy - (3 * atr) \div 2) <= stop[1]
                      /\ stop[1] <= round2(buy - atr)
                   \/ stop[1] = round2((buy * 97) \div 100)

\* C5 as amended: the stop loss is mean(Lower_BB) - 2 * mean(ATR) over the
\* window, rounded to two decimals; it is unavailable exactly when the buy
\* range is, which never happens for a successful ticker.
C5_StopLossTwoAtr ==
    \A k \in Successes : \A tf \in Timeframes :
        LET data == results[k]["Data"]
            buy  == MeanOfLast(data["Lower_BB"], tf.bars)
            atr  == MeanOfLast(data["ATR"], tf.bars)
        IN  /\ results[k][tf.stop] = <<round2(buy - 2 * atr)>>
            /\ results[k][tf.buy] # None

\* A successful ticker with a positive ATR, whose stop loss lies below the
\* whole range buy - 1.5 ATR .. buy - ATR.
C5_Witness ==
    \E k \in Successes : \E tf \in Timeframes :
        LET data == results[k]["Data"]
            buy  == MeanOfLast(data["Lower_BB"], tf.bars)
            atr  == MeanOfLast(data["ATR"], tf.bars)
        IN  /\ atr > 0
            /\ results[k][tf.stop][1] < round2(buy - (3 * atr) \div 2)

(***************************************************************************)
(* C6                                                                      *)
(***************************************************************************)
\* C6 as claimed: every rolling indicator is unavailable at each of its first
\* period - 1 bars.
C6_EarlyBarsUnavailable ==
    \A k \in Successes : \A c \in RollingColumns :
        \A n \in 1..(c[2] - 1) : results[k]["Data"][c[1]][n] = NaN

\* C6 as amended: every rolling indicator is the rolling value from bar
\* period - 1 on, and each of its first period - 1 bars holds the value of
\* bar period - 1, taken backwards from that later bar; no bar is unavailable.
C6_EarlyBarsBackfilled ==
    \A k \in Successes : \A c \in RollingColumns :
        LET col == results[k]["Data"][c[1]]
            raw == RollingOf[tickers[k]][c[1]]
        IN  \A n \in 1..Len(col) :
                /\ col[n] # NaN
                /\ n < c[2] => raw[n] = NaN /\ col[n] = col[c[2]]
                /\ n >= c[2] => col[n] = raw[n]

\* A successful ticker whose ATR differs between bar 13, the first with a
\* full window, and bar 14: the early bars carry the value of bar 13.
C6_Witness ==
    \E k \in Successes :
        LET atr == results[k]["Data"]["ATR"]
        IN  atr[AtrPeriod] # atr[AtrPeriod + 1] /\ atr[1] = atr[AtrPeriod]

(***************************************************************************)
(* C7                                                                      *)
(***************************************************************************)
\* C7: every value of the RSI column lies in [0, 100]; at a bar whose 14-bar
\* window has no fall and some rise the RSI is exactly 100, and at a bar
\* whose window has neither it is the fallback 50.
C7_RsiRange ==
    \A k \in Successes :
        LET rsi == results[k]["Data"]["RSI"]
            gl  == GainLoss[tickers[k]]
        IN  \A n \in 1..Len(rsi) :
                /\ 0 <= rsi[n] /\ rsi[n] <= 100 * Scale
                /\ (n >= RsiPeriod /\ gl[n][2] = 0 /\ gl[n][1] > 0) => rsi[n] = 100 * Scale
                /\ (n >= RsiPeriod /\ gl[n][2] = 0 /\ gl[n][1] = 0) => rsi[n] = 50 * Scale

\* A successful ticker with a bar whose window only rises.
C7_Witness ==
    \E k \in Successes :
        \E n \in RsiPeriod..Len(results[k]["Data"]["RSI"]) :
            /\ GainLoss[tickers[k]][n][2] = 0
            /\ GainLoss[tickers[k]][n][1] > 0
            /\ results[k]["Data"]["RSI"][n] = 100 * Scale

(***************************************************************************)
(* C8                                                                      *)
(***************************************************************************)
IsFlat(data) ==
    \A n \in 1..Len(data["Close"]) :
        /\ data["Close"][n] = data["Close"][1]
        /\ data["High"][n] = data["Close"][1]
        /\ data["Low"][n] = data["Close"][1]

\* C8: a successful series with high = low = close = c at every bar has RSI
\* 50, Upper_BB = Lower_BB = c, ATR 0 and MACD line = signal line = 0 at
\* every bar.
C8_FlatSeries ==
    \A k \in Successes :
        LET data == results[k]["Data"]
        IN  IsFlat(data) =>
                \A n \in 1..Len(data["Close"]) :
                    /\ data["RSI"][n] = 50 * Scale
                    /\ data["Upper_BB"][n] = data["Close"][1]
                    /\ data["Lower_BB"][n] = data["Close"][1]
                    /\ data["ATR"][n] = 0
                    /\ data["MACD_Line"][n] = 0
                    /\ data["Signal_Line"][n] = 0

C8_Witness ==
    \E k \in Successes :
        /\ IsFlat(results[k]["Data"])
        /\ Len(results[k]["Data"]["Close"]) >= MinHistory
        /\ results[k]["RSI"] = 50 * 100

(***************************************************************************)
(* C9                                                                      *)
(***************************************************************************)
\* C9: the first 14 bars (0..13) of the RSI column have no 14 real
\* differences, so they are undefined and carry the fallback 50.
C9_FirstPeriodBarsUndefined ==
    \A k \in Successes :
        \A n \in 1..RsiPeriod : results[k]["Data"]["RSI"][n] = 50 * Scale

(***************************************************************************)
(* C10                                                                     *)
(***************************************************************************)
\* The true range of bar n > 0 and of bar 0, from the raw columns.
TrueRangeAt(data, n) ==
    LET hl == data["High"][n] - data["Low"][n]
        hc == Abs(data["High"][n] - data["Close"][n - 1])
        lc == Abs(data["Low"][n] - data["Close"][n - 1])
    IN  IF hl >= hc /\ hl >= lc THEN hl ELSE IF hc >= lc THEN hc ELSE lc

FirstWindowTrueRange(data) ==
    [n \in 1..AtrPeriod |->
        IF n = 1 THEN data["High"][1] - data["Low"][1] ELSE TrueRangeAt(data, n)]

\* C10: every timeframe of a successful ticker has its three levels, ordered
\* stop loss <= buy low <= buy high and sell low <= sell high; the ATR is a
\* number >= 0 at every bar, and its first window takes high - low as the
\* true range of the first bar.
C10_LevelsOrdered ==
    \A k \in Successes :
        LET data == results[k]["Data"]
        IN  /\ \A tf \in Timeframes :
                /\ Len(results[k][tf.buy]) = 2
                /\ Len(results[k][tf.sell]) = 2
                /\ Len(results[k][tf.stop]) = 1
                /\ results[k][tf.stop][1] <= results[k][tf.buy][1]
                /\ results[k][tf.buy][1] <= results[k][tf.buy][2]
                /\ results[k][tf.sell][1] <= results[k][tf.sell][2]
            /\ \A n \in 1..Len(data["ATR"]) : data["ATR"][n] # NaN /\ data["ATR"][n] >= 0
            /\ data["ATR"][AtrPeriod] =
                   SumRange(FirstWindowTrueRange(data), 1, AtrPeriod) \div AtrPeriod

\* A successful ticker with a positive ATR and strictly ordered levels.
C10_Witness ==
    \E k \in Successes : \E tf \in Timeframes :
        /\ results[k]["ATR"] > 0
        /\ results[k][tf.stop][1] < results[k][tf.buy][1]
        /\ results[k][tf.buy][1] < results[k][tf.buy][2]
        /\ results[k][tf.sell][1] < results[k][tf.sell][2]

====
